---- MODULE Spec2Model ----
(***************************************************************************)
(* A model of srt-translator (src/mod.ts, src/google-translate.ts): the    *)
(* SRT codec (parseSRT / formatSRT) computed on character sequences, the   *)
(* translation client (translate / extractTranslatedText), the fan-out of  *)
(* translateSRT and the control flow of main.                              *)
(*                                                                         *)
(* A JavaScript string is a sequence of one-character strings.             *)
(***************************************************************************)
EXTENDS Integers, Sequences, FiniteSets, TLC

VARIABLES
    pc,                \* main's position
    argc,              \* Deno.args.length
    targetLang,        \* Deno.args[1]
    env,               \* which I/O operations of this run reject
    shapes,            \* the blocks the input file was written from (ghost)
    content,           \* the text read from the input file
    entries,           \* parseSRT(content)
    task,              \* per entry: the state of its async callback
    hung,              \* the translate calls the network never answers
    calls,             \* per entry: translate calls issued
    order,             \* entry positions in the order their tasks finished
    progress,          \* progressBar.value
    translatedEntries, \* what Promise.all resolved with
    output,            \* the string given to Deno.writeTextFile
    readCalls,         \* Deno.readTextFile calls
    writeCalls,        \* Deno.writeTextFile calls
    error,             \* the step whose rejection main's catch received
    exitCode,          \* the process's exit code
    cpc,               \* codec run: position
    cin,               \* codec run: the entries given to formatSRT
    cdoc,              \* codec run: formatSRT(cin)
    cparsed,           \* codec run: parseSRT(cdoc)
    cdoc2,             \* codec run: formatSRT(cparsed)
    tpc,               \* client run: position
    ttext,             \* client run: the text to translate
    tresp,             \* client run: what the endpoint answers
    tout               \* client run: how translate settled

vars == <<pc, argc, targetLang, env, shapes, content, entries, task, hung,
          calls, order, progress, translatedEntries, output, readCalls,
          writeCalls, error, exitCode, cpc, cin, cdoc, cparsed, cdoc2,
          tpc, ttext, tresp, tout>>

mainVars == <<pc, argc, targetLang, env, shapes, content, entries, task, hung,
              calls, order, progress, translatedEntries, output, readCalls,
              writeCalls, error, exitCode>>
codecVars == <<cpc, cin, cdoc, cparsed, cdoc2>>
clientVars == <<tpc, ttext, tresp, tout>>

----------------------------------------------------------------------------
(* Bounds of the model.                                                    *)

\* blocks in an input document
MaxBlocks == 3
\* entries given to the codec round trip
MaxCodecEntries == 2
\* sentence objects in a response body
MaxSentences == 2

----------------------------------------------------------------------------
(* JavaScript strings and numbers.                                         *)

NL == "\n"
SP == " "

\* String.prototype.trim's white space, within the alphabet of the model
IsSpace(c) == c \in {SP, NL}

SetMin(S) == CHOOSE x \in S : \A y \in S : x <= y
SetMax(S) == CHOOSE x \in S : \A y \in S : y <= x

\* String.prototype.trim
Trim(s) ==
    LET keep == {i \in 1..Len(s) : ~IsSpace(s[i])}
    IN  IF keep = {} THEN << >> ELSE SubSeq(s, SetMin(keep), SetMax(keep))

\* Array.prototype.join
RECURSIVE Join(_, _)
Join(parts, sep) ==
    IF parts = << >> THEN << >>
    ELSE IF Len(parts) = 1 THEN parts[1]
    ELSE parts[1] \o sep \o Join(Tail(parts), sep)

\* whether the literal sep occurs in s at position i
OccursAt(s, sep, i) ==
    /\ i + Len(sep) - 1 <= Len(s)
    /\ SubSeq(s, i, i + Len(sep) - 1) = sep

\* String.prototype.split with a non-empty literal separator: the pieces of
\* s from position start on, cut at each next occurrence of sep
RECURSIVE SplitFrom(_, _, _)
SplitFrom(s, sep, start) ==
    LET hits == {i \in start..Len(s) : OccursAt(s, sep, i)}
    IN  IF hits = {} THEN <<SubSeq(s, start, Len(s))>>
        ELSE <<SubSeq(s, start, SetMin(hits) - 1)>>
             \o SplitFrom(s, sep, SetMin(hits) + Len(sep))

Split(s, sep) == SplitFrom(s, sep, 1)

\* The end of the match of /\n\s*\n/ that starts at i (0: no match): \s* is
\* greedy and backtracks, so the match ends at the last newline of the run
\* of white space that follows s[i].
SpaceRunEnd(s, i) ==
    SetMax({j \in i..Len(s) : \A k \in (i + 1)..j : IsSpace(s[k])})

BlankMatchEnd(s, i) ==
    IF s[i] # NL THEN 0
    ELSE LET nls == {j \in (i + 1)..SpaceRunEnd(s, i) : s[j] = NL}
         IN  IF nls = {} THEN 0 ELSE SetMax(nls)

\* String.prototype.split(/\n\s*\n/)
RECURSIVE SplitBlankFrom(_, _)
SplitBlankFrom(s, start) ==
    LET hits == {i \in start..Len(s) : BlankMatchEnd(s, i) > 0}
    IN  IF hits = {} THEN <<SubSeq(s, start, Len(s))>>
        ELSE <<SubSeq(s, start, SetMin(hits) - 1)>>
             \o SplitBlankFrom(s, BlankMatchEnd(s, SetMin(hits)) + 1)

SplitBlank(s) == SplitBlankFrom(s, 1)

\* A JavaScript number that is an integer, or NaN
Num(n) == [nan |-> FALSE, n |-> n]
NaN == [nan |-> TRUE, n |-> 0]

Digits == <<"0", "1", "2", "3", "4", "5", "6", "7", "8", "9">>
IsDigit(c) == \E k \in 1..10 : Digits[k] = c
DigitVal(c) == (CHOOSE k \in 1..10 : Digits[k] = c) - 1

RECURSIVE NatToStr(_)
NatToStr(n) ==
    IF n < 10 THEN <<Digits[n + 1]>>
    ELSE NatToStr(n \div 10) \o <<Digits[(n % 10) + 1]>>

\* Number.prototype.toString, as a template literal applies it
NumToStr(x) ==
    IF x.nan THEN <<"N", "a", "N">>
    ELSE IF x.n < 0 THEN <<"-">> \o NatToStr(0 - x.n)
    ELSE NatToStr(x.n)

\* the value of the longest prefix of digits of s, continuing from acc
RECURSIVE DigitsValue(_, _)
DigitsValue(s, acc) ==
    IF s = << >> \/ ~IsDigit(Head(s)) THEN acc
    ELSE DigitsValue(Tail(s), acc * 10 + DigitVal(Head(s)))

\* parseInt(s, 10) of a trimmed string
ParseInt(s) ==
    LET signed == s # << >> /\ Head(s) \in {"-", "+"}
        body == IF signed THEN Tail(s) ELSE s
    IN  IF body = << >> \/ ~IsDigit(Head(body)) THEN NaN
        ELSE IF signed /\ Head(s) = "-" THEN Num(0 - DigitsValue(body, 0))
        ELSE Num(DigitsValue(body, 0))

\* the value undefined, and how a template literal prints a string or it
Undefined == <<"undefined">>
ToStr(x) ==
    IF x = Undefined THEN <<"u", "n", "d", "e", "f", "i", "n", "e", "d">>
    ELSE x

----------------------------------------------------------------------------
(* The SRT codec.                                                          *)

Arrow == <<SP, "-", "-", ">", SP>>

\* EntryOfLines with the text lines joined by a space
EntryOfLinesSpace(lines) ==
    LET timeLine == Trim(lines[2])
        times == Split(timeLine, Arrow)
    IN  [id |-> ParseInt(Trim(lines[1])),
         startTime |-> times[1],
         endTime |-> IF Len(times) >= 2 THEN times[2] ELSE Undefined,
         text |-> Join(SubSeq(lines, 3, Len(lines)), <<SP>>)]

\* the entry parseSRT pushes for a block of at least three lines
EntryOfLines(lines) ==
    LET timeLine == Trim(lines[2])
        times == Split(timeLine, Arrow)
    IN  [id |-> ParseInt(Trim(lines[1])),
         startTime |-> times[1],
         endTime |-> IF Len(times) >= 2 THEN times[2] ELSE Undefined,
         text |-> Join(SubSeq(lines, 3, Len(lines)), <<NL>>)]

\* ParseBlocks keeping every block of at least two lines
RECURSIVE ParseBlocksTwo(_)
ParseBlocksTwo(blocks) ==
    IF blocks = << >> THEN << >>
    ELSE LET lines == Split(Trim(Head(blocks)), <<NL>>)
         IN  IF Len(lines) < 2 THEN ParseBlocksTwo(Tail(blocks))
             ELSE <<EntryOfLines(lines)>> \o ParseBlocksTwo(Tail(blocks))

\* the loop of parseSRT over blocks
RECURSIVE ParseBlocks(_)
ParseBlocks(blocks) ==
    IF blocks = << >> THEN << >>
    ELSE LET lines == Split(Trim(Head(blocks)), <<NL>>)
         IN  IF Len(lines) < 3 THEN ParseBlocks(Tail(blocks))
             ELSE <<EntryOfLines(lines)>> \o ParseBlocks(Tail(blocks))

parseSRT(c) == ParseBlocks(SplitBlank(Trim(c)))

\* the template literal of formatSRT
FormatEntry(entry) ==
    NumToStr(entry.id) \o <<NL>> \o ToStr(entry.startTime) \o Arrow
    \o ToStr(entry.endTime) \o <<NL>> \o ToStr(entry.text) \o <<NL>>

formatSRT(es) == Join([i \in 1..Len(es) |-> FormatEntry(es[i])], <<NL>>)

----------------------------------------------------------------------------
(* The translation client.                                                 *)

\* the keys of googleLanguages (languages.ts); a few of them
googleLanguages == {"auto", "en", "es", "fr", "ja"}

\* isGoogleLanguage accepting every tag
isGoogleLanguageAny(lang) == TRUE

isGoogleLanguage(lang) == lang \in googleLanguages

\* Response bodies, as res.json() yields them: a rejection ("invalid"), a
\* falsy value ("null"), an object with no sentences field ("nosentences"),
\* one whose sentences field is no array ("notarray"), or one with an array
\* of sentence objects.
Body(kind, sentences) == [kind |-> kind, sentences |-> sentences]
NullBody == Body("null", << >>)

Fragments == {<< >>, <<"X">>, <<"Y", SP, "z">>}

SentenceLists ==
    UNION {[1..n -> [trans : Fragments]] : n \in 0..MaxSentences}

Bodies ==
    {Body(k, << >>) : k \in {"invalid", "null", "nosentences", "notarray"}}
    \cup {Body("array", ss) : ss \in SentenceLists}

\* What the endpoint does with one request: fetch rejects (net = "fail"), or
\* a response arrives with res.ok = okStatus and the body.
Responses == [net : {"ok", "fail"}, okStatus : BOOLEAN, body : Bodies]

\* how a call of translate settles
Returned(t) == [ok |-> TRUE, text |-> t]
Threw == [ok |-> FALSE, text |-> << >>]

\* extractTranslatedText joining the fragments with a space
extractTranslatedTextSpace(data) ==
    IF data.kind = "null" \/ ~(data.kind = "array") THEN << >>
    ELSE Join([i \in 1..Len(data.sentences) |-> data.sentences[i].trans], <<SP>>)

extractTranslatedText(data) ==
    IF data.kind = "null" \/ ~(data.kind = "array") THEN << >>
    ELSE Join([i \in 1..Len(data.sentences) |-> data.sentences[i].trans], << >>)

translate(text, resp) ==
    IF resp.net = "fail" THEN Threw
    ELSE IF ~resp.okStatus THEN Threw
    ELSE IF resp.body.kind = "invalid" THEN Threw
    ELSE Returned(extractTranslatedText(resp.body))

----------------------------------------------------------------------------
(* Input documents.  A document is written from a sequence of block        *)
(* shapes; the block at position i carries the index i.                    *)

Shapes == {"full", "notext", "idonly"}

StartOf(i) == <<"0", "0", ":", "0", "0", ":", "0">> \o NatToStr(i % 10) \o <<",", "0", "0", "0">>
EndOf(i) == <<"0", "0", ":", "0", "0", ":", "0">> \o NatToStr(i % 10) \o <<",", "5", "0", "0">>

\* the text lines of the block at position i: one line, or two
TextLinesOf(i) ==
    IF i % 2 = 1 THEN << <<"H", "i", SP, "a">> >>
    ELSE << <<"a", "b">>, <<SP, "c", SP, "d">> >>

BlockLines(shape, i) ==
    IF shape = "idonly" THEN <<NatToStr(i)>>
    ELSE IF shape = "notext" THEN <<NatToStr(i), StartOf(i) \o Arrow \o EndOf(i)>>
    ELSE <<NatToStr(i), StartOf(i) \o Arrow \o EndOf(i)>> \o TextLinesOf(i)

\* the blank-line separator written after the block at position i
SepAfter(i) == IF i % 2 = 1 THEN <<NL, NL>> ELSE <<NL, SP, NL, NL>>

RECURSIVE RenderFrom(_, _)
RenderFrom(sh, i) ==
    IF i > Len(sh) THEN << >>
    ELSE Join(BlockLines(sh[i], i), <<NL>>)
         \o (IF i < Len(sh) THEN SepAfter(i) ELSE <<NL>>)
         \o RenderFrom(sh, i + 1)

Render(sh) == RenderFrom(sh, 1)

ShapeSeqs == UNION {[1..n -> Shapes] : n \in 0..MaxBlocks}

\* the entries a document written from sh holds, from how it was written
RECURSIVE ExpectedFrom(_, _)
ExpectedFrom(sh, i) ==
    IF i > Len(sh) THEN << >>
    ELSE (IF Len(BlockLines(sh[i], i)) >= 3
          THEN << [id |-> Num(i), startTime |-> StartOf(i), endTime |-> EndOf(i),
                   text |-> Join(TextLinesOf(i), <<NL>>)] >>
          ELSE << >>)
         \o ExpectedFrom(sh, i + 1)

ExpectedEntries(sh) == ExpectedFrom(sh, 1)

----------------------------------------------------------------------------
(* translateSRT and main.                                                  *)

NoEntry == [id |-> NaN, startTime |-> Undefined, endTime |-> Undefined, text |-> Undefined]
NoOutcome == [ok |-> FALSE, text |-> Undefined]

\* what the endpoint may answer to a call issued by translateSRT
TaskResponses ==
    {[net |-> "fail", okStatus |-> FALSE, body |-> NullBody],
     [net |-> "ok", okStatus |-> FALSE, body |-> NullBody],
     [net |-> "ok", okStatus |-> TRUE, body |-> NullBody],
     [net |-> "ok", okStatus |-> TRUE,
      body |-> Body("array", <<[trans |-> <<"X">>], [trans |-> <<"Y", SP, "z">>]>>)]}

\* TaskValue whose catch clause returns the entry with an empty text
TaskValueBlank(entry, out) ==
    IF out.ok THEN [entry EXCEPT !.text = out.text] ELSE [entry EXCEPT !.text = << >>]

\* TaskValue building its copy field by field, the end time from the start
TaskValueTimes(entry, out) ==
    IF out.ok
    THEN [id |-> entry.id, startTime |-> entry.startTime,
          endTime |-> entry.startTime, text |-> out.text]
    ELSE entry

\* the value the async callback of entries.map resolves with
TaskValue(entry, out) ==
    IF out.ok THEN [entry EXCEPT !.text = out.text] ELSE entry

\* ProgressAfter with progressBar.add(1) in the try clause
ProgressAfterOnSuccess(p, ok) == IF ok THEN p + 1 ELSE p

\* progressBar.add(1) in the finally clause, after either outcome
ProgressAfter(p, ok) == p + 1

\* DispatchCalls issuing the first entry's call only
DispatchFirst(n) == [i \in 1..n |-> IF i = 1 THEN 1 ELSE 0]

\* the translate calls issued by entries.map: one per entry
DispatchCalls(n) == [i \in 1..n |-> 1]

\* AllSettled as Promise.race would have it
AnySettled(t) == \E i \in 1..Len(t) : t[i].state = "finished"

\* when Promise.all(translationPromises) resolves
AllSettled(t) == \A i \in 1..Len(t) : t[i].state = "finished"

\* PromiseAll collecting the values in the order the tasks finished
PromiseAllArrival(t, ord) == [k \in 1..Len(ord) |-> t[ord[k]].value]

\* what Promise.all resolves with: each promise's value at its own position
PromiseAll(t, ord) == [i \in 1..Len(t) |-> t[i].value]

Exit(code, why) ==
    /\ pc' = "exited"
    /\ exitCode' = code
    /\ error' = why

IdleMain ==
    /\ pc = "idle" /\ argc = 0 /\ targetLang = "" /\ env = {}
    /\ shapes = << >> /\ content = << >> /\ entries = << >> /\ task = << >>
    /\ hung = {} /\ calls = << >> /\ order = << >> /\ progress = 0
    /\ translatedEntries = << >> /\ output = << >>
    /\ readCalls = 0 /\ writeCalls = 0 /\ error = "none" /\ exitCode = -1

IdleCodec ==
    /\ cpc = "idle" /\ cin = << >> /\ cdoc = << >> /\ cparsed = << >> /\ cdoc2 = << >>

IdleClient ==
    /\ tpc = "idle" /\ ttext = << >> /\ tresp = [net |-> "fail", okStatus |-> FALSE, body |-> NullBody]
    /\ tout = NoOutcome

\* the I/O operations that may reject in a run
Faults == SUBSET {"read", "stdout", "write"}

Init ==
    /\ pc = "start"
    /\ argc \in 0..3
    /\ targetLang \in {"ja", "xx"}
    /\ env \in Faults
    /\ shapes = << >> /\ content = << >> /\ entries = << >> /\ task = << >>
    /\ hung = {} /\ calls = << >> /\ order = << >> /\ progress = 0
    /\ translatedEntries = << >> /\ output = << >>
    /\ readCalls = 0 /\ writeCalls = 0 /\ error = "none" /\ exitCode = -1
    /\ IdleCodec /\ IdleClient

\* main, lines 118-121
ArgsTooFew ==
    /\ pc = "start" /\ argc < 2
    /\ Exit(1, "usage")
    /\ UNCHANGED <<argc, targetLang, env, shapes, content, entries, task, hung,
                   calls, order, progress, translatedEntries, output,
                   readCalls, writeCalls>>

ArgsOk ==
    /\ pc = "start" /\ ~(argc < 2)
    /\ pc' = "checkLang"
    /\ UNCHANGED <<argc, targetLang, env, shapes, content, entries, task, hung,
                   calls, order, progress, translatedEntries, output,
                   readCalls, writeCalls, error, exitCode>>

\* main, lines 126-130
LangInvalid ==
    /\ pc = "checkLang" /\ ~isGoogleLanguage(targetLang)
    /\ Exit(1, "lang")
    /\ UNCHANGED <<argc, targetLang, env, shapes, content, entries, task, hung,
                   calls, order, progress, translatedEntries, output,
                   readCalls, writeCalls>>

LangOk ==
    /\ pc = "checkLang" /\ isGoogleLanguage(targetLang)
    /\ pc' = "read"
    /\ UNCHANGED <<argc, targetLang, env, shapes, content, entries, task, hung,
                   calls, order, progress, translatedEntries, output,
                   readCalls, writeCalls, error, exitCode>>

\* main, line 141: Deno.readTextFile rejects, and the catch exits
ReadFails ==
    /\ pc = "read" /\ "read" \in env
    /\ readCalls' = readCalls + 1
    /\ Exit(1, "read")
    /\ UNCHANGED <<argc, targetLang, env, shapes, content, entries, task, hung,
                   calls, order, progress, translatedEntries, output, writeCalls>>

\* main, line 141: Deno.readTextFile resolves with the file's text
ReadOk ==
    /\ pc = "read" /\ "read" \notin env
    /\ readCalls' = readCalls + 1
    /\ \E sh \in ShapeSeqs :
          /\ shapes' = sh
          /\ content' = Render(sh)
    /\ pc' = "parse"
    /\ UNCHANGED <<argc, targetLang, env, entries, task, hung, calls, order,
                   progress, translatedEntries, output, writeCalls, error, exitCode>>

\* translateSRT, lines 69-80
Parse ==
    /\ pc = "parse"
    /\ entries' = parseSRT(content)
    /\ progress' = 0
    /\ pc' = "dispatch"
    /\ UNCHANGED <<argc, targetLang, env, shapes, content, task, hung, calls,
                   order, translatedEntries, output, readCalls, writeCalls,
                   error, exitCode>>

\* translateSRT, lines 83-86: entries.map runs every callback up to its await
Dispatch ==
    /\ pc = "dispatch"
    /\ calls' = DispatchCalls(Len(entries))
    /\ task' = [i \in 1..Len(entries) |->
                   [state |-> "pending", out |-> NoOutcome, value |-> NoEntry]]
    /\ \E h \in SUBSET (1..Len(entries)) : hung' = h
    /\ pc' = "awaitAll"
    /\ UNCHANGED <<argc, targetLang, env, shapes, content, entries, order,
                   progress, translatedEntries, output, readCalls, writeCalls,
                   error, exitCode>>

\* translateSRT, lines 86-95: the call of entry i settles and its callback
\* runs to its end
TaskFinish(i) ==
    /\ pc = "awaitAll"
    /\ i \in 1..Len(task) /\ task[i].state = "pending" /\ i \notin hung
    /\ \E resp \in TaskResponses :
          LET out == translate(entries[i].text, resp)
          IN  /\ task' = [task EXCEPT ![i] =
                             [state |-> "finished", out |-> out,
                              value |-> TaskValue(entries[i], out)]]
              /\ progress' = ProgressAfter(progress, out.ok)
    /\ order' = Append(order, i)
    /\ UNCHANGED <<pc, argc, targetLang, env, shapes, content, entries, hung,
                   calls, translatedEntries, output, readCalls, writeCalls,
                   error, exitCode>>

\* translateSRT, line 99
Join_ ==
    /\ pc = "awaitAll" /\ AllSettled(task)
    /\ translatedEntries' = PromiseAll(task, order)
    /\ pc' = "endBar"
    /\ UNCHANGED <<argc, targetLang, env, shapes, content, entries, task, hung,
                   calls, order, progress, output, readCalls, writeCalls,
                   error, exitCode>>

\* translateSRT, lines 102-103: writing to stdout rejects; main's catch exits
EndBarFails ==
    /\ pc = "endBar" /\ "stdout" \in env
    /\ Exit(1, "translate")
    /\ UNCHANGED <<argc, targetLang, env, shapes, content, entries, task, hung,
                   calls, order, progress, translatedEntries, output,
                   readCalls, writeCalls>>

\* translateSRT, lines 102-105
EndBarOk ==
    /\ pc = "endBar" /\ "stdout" \notin env
    /\ output' = formatSRT(translatedEntries)
    /\ pc' = "write"
    /\ UNCHANGED <<argc, targetLang, env, shapes, content, entries, task, hung,
                   calls, order, progress, translatedEntries, readCalls,
                   writeCalls, error, exitCode>>

\* main, line 153: Deno.writeTextFile rejects; the catch exits
WriteFails ==
    /\ pc = "write" /\ "write" \in env
    /\ writeCalls' = writeCalls + 1
    /\ Exit(1, "write")
    /\ UNCHANGED <<argc, targetLang, env, shapes, content, entries, task, hung,
                   calls, order, progress, translatedEntries, output, readCalls>>

\* main, lines 153-155
WriteOk ==
    /\ pc = "write" /\ "write" \notin env
    /\ writeCalls' = writeCalls + 1
    /\ pc' = "exited"
    /\ exitCode' = 0
    /\ UNCHANGED <<argc, targetLang, env, shapes, content, entries, task, hung,
                   calls, order, progress, translatedEntries, output, readCalls,
                   error>>

Next ==
    \/ ArgsTooFew /\ UNCHANGED <<codecVars, clientVars>>
    \/ ArgsOk /\ UNCHANGED <<codecVars, clientVars>>
    \/ LangInvalid /\ UNCHANGED <<codecVars, clientVars>>
    \/ LangOk /\ UNCHANGED <<codecVars, clientVars>>
    \/ ReadFails /\ UNCHANGED <<codecVars, clientVars>>
    \/ ReadOk /\ UNCHANGED <<codecVars, clientVars>>
    \/ Parse /\ UNCHANGED <<codecVars, clientVars>>
    \/ Dispatch /\ UNCHANGED <<codecVars, clientVars>>
    \/ (\E i \in 1..Len(task) : TaskFinish(i)) /\ UNCHANGED <<codecVars, clientVars>>
    \/ Join_ /\ UNCHANGED <<codecVars, clientVars>>
    \/ EndBarFails /\ UNCHANGED <<codecVars, clientVars>>
    \/ EndBarOk /\ UNCHANGED <<codecVars, clientVars>>
    \/ WriteFails /\ UNCHANGED <<codecVars, clientVars>>
    \/ WriteOk /\ UNCHANGED <<codecVars, clientVars>>

Spec == Init /\ [][Next]_vars

\* The steps of translateSRT and main from the wait on
TaskStep == (\E i \in 1..Len(task) : TaskFinish(i)) /\ UNCHANGED <<codecVars, clientVars>>
JoinStep == Join_ /\ UNCHANGED <<codecVars, clientVars>>
EndBarStep == (EndBarOk \/ EndBarFails) /\ UNCHANGED <<codecVars, clientVars>>
WriteStep == (WriteOk \/ WriteFails) /\ UNCHANGED <<codecVars, clientVars>>

\* The event loop runs every continuation that is ready, and every call
\* that is not hung settles.
FairSpec ==
    Spec /\ WF_vars(TaskStep) /\ WF_vars(JoinStep) /\ WF_vars(EndBarStep)
         /\ WF_vars(WriteStep)

----------------------------------------------------------------------------
(* The codec alone: formatSRT, parseSRT and formatSRT again, applied to    *)
(* entries drawn from samples.                                             *)

CodecIds == {Num(12)}
CodecStarts == {<<"0", "0", ":", "0", "0", ":", "0", "1", ",", "0", "0", "0">>,
                <<SP, "0", "0", ":", "0", "0", ":", "0", "1", ",", "0", "0", "0">>}
CodecEnds == {<<"0", "0", ":", "0", "0", ":", "0", "2", ",", "5", "0", "0">>}
CodecTexts ==
    {<<"H", "i", SP, "a">>,
     <<"a", "b", NL, SP, "c">>,
     <<SP, "a">>,
     <<"a", SP>>,
     << >>,
     <<"a", NL, NL, "b">>,
     <<"a", NL, SP, NL, "b">>}

CodecEntries ==
    [id : CodecIds, startTime : CodecStarts, endTime : CodecEnds, text : CodecTexts]

CodecInputs == UNION {[1..n -> CodecEntries] : n \in 0..MaxCodecEntries}

CodecInit ==
    /\ cpc = "format" /\ cin \in CodecInputs
    /\ cdoc = << >> /\ cparsed = << >> /\ cdoc2 = << >>
    /\ IdleMain /\ IdleClient

Encode ==
    /\ cpc = "format"
    /\ cdoc' = formatSRT(cin)
    /\ cpc' = "parse"
    /\ UNCHANGED <<cin, cparsed, cdoc2>>

Decode ==
    /\ cpc = "parse"
    /\ cparsed' = parseSRT(cdoc)
    /\ cpc' = "reformat"
    /\ UNCHANGED <<cin, cdoc, cdoc2>>

Reencode ==
    /\ cpc = "reformat"
    /\ cdoc2' = formatSRT(cparsed)
    /\ cpc' = "done"
    /\ UNCHANGED <<cin, cdoc, cparsed>>

CodecNext ==
    \/ Encode /\ UNCHANGED <<mainVars, clientVars>>
    \/ Decode /\ UNCHANGED <<mainVars, clientVars>>
    \/ Reencode /\ UNCHANGED <<mainVars, clientVars>>

SpecCodec == CodecInit /\ [][CodecNext]_vars

----------------------------------------------------------------------------
(* The client alone: translate applied to every answer of the endpoint.    *)

ClientTexts == {<<"H", "i">>, <<"a", NL, "b">>}

ClientInit ==
    /\ tpc = "call" /\ ttext \in ClientTexts /\ tresp \in Responses
    /\ tout = NoOutcome
    /\ IdleMain /\ IdleCodec

TranslateSettles ==
    /\ tpc = "call"
    /\ tout' = translate(ttext, tresp)
    /\ tpc' = "settled"
    /\ UNCHANGED <<ttext, tresp>>

ClientNext == TranslateSettles /\ UNCHANGED <<mainVars, codecVars>>

SpecClient == ClientInit /\ [][ClientNext]_vars

----------------------------------------------------------------------------
(* Properties.                                                             *)

\* Promise.all has resolved: translateSRT is past line 99
Joined ==
    \/ pc \in {"endBar", "write"}
    \/ pc = "exited" /\ error \in {"none", "translate", "write"}

\* parseSRT has returned
Parsed == pc \in {"dispatch", "awaitAll"} \/ Joined

Finished == {i \in 1..Len(task) : task[i].state = "finished"}

\* C1: whatever the order in which the calls complete and however they
\* settle, the entries given to formatSRT stand at the positions of the
\* decoded entries: output entry i has the id of decoded entry i.
C1_OrderPreserved ==
    Joined =>
        /\ Len(translatedEntries) = Len(entries)
        /\ \A i \in 1..Len(entries) : translatedEntries[i].id = entries[i].id

\* C1 witness: three entries, the last finished first, with a failure and a
\* success among them.
C1_Witness ==
    /\ Joined /\ Len(entries) = 3
    /\ order[1] = 3 /\ order[3] = 1
    /\ \E i, j \in 1..3 : task[i].out.ok /\ ~task[j].out.ok

\* C2: an entry whose call failed keeps its original text, every entry
\* whose call succeeded carries the text translate returned for it, and
\* translateSRT throws only when writing to stdout rejects.
C2_FallbackOnFailure ==
    /\ Joined =>
          \A i \in 1..Len(entries) :
              translatedEntries[i].text =
                  IF task[i].out.ok THEN task[i].out.text ELSE entries[i].text
    /\ error = "translate" => "stdout" \in env
    /\ (pc = "awaitAll" /\ Finished = 1..Len(entries)) => ENABLED Join_

\* C2 witness: the call of one entry failed, another's returned a text that
\* differs from the original, and the batch was joined.
C2_Witness ==
    /\ Joined
    /\ \E k, j \in 1..Len(entries) :
          /\ ~task[k].out.ok /\ translatedEntries[k].text = entries[k].text
          /\ task[j].out.ok /\ translatedEntries[j].text = <<"X", "Y", SP, "z">>
          /\ translatedEntries[j].text # entries[j].text

\* C3: every output entry has the id, the start time and the end time of
\* its decoded entry, and no step after parseSRT changes the decoded entries.
C3_OnlyTextChanges ==
    /\ [](Joined =>
            \A i \in 1..Len(entries) :
                /\ translatedEntries[i].id = entries[i].id
                /\ translatedEntries[i].startTime = entries[i].startTime
                /\ translatedEntries[i].endTime = entries[i].endTime)
    /\ [][pc # "parse" => entries' = entries]_vars

\* C3 witness: joined, with an entry translated and an entry fallen back.
C3_Witness ==
    /\ Joined
    /\ \E k, j \in 1..Len(entries) :
          /\ ~task[k].out.ok /\ translatedEntries[k] = entries[k]
          /\ task[j].out.ok /\ translatedEntries[j].text # entries[j].text
          /\ translatedEntries[j].endTime = EndOf(entries[j].id.n)

\* An entry as the data model describes it: a positive integer, two
\* timestamps, a text of one or more lines each holding something.
IsTimestamp(t) == t # << >> /\ \A i \in 1..Len(t) : ~IsSpace(t[i])

WellFormedEntry(e) ==
    /\ ~e.id.nan /\ e.id.n > 0
    /\ IsTimestamp(e.startTime) /\ IsTimestamp(e.endTime)
    /\ \A l \in 1..Len(Split(e.text, <<NL>>)) : Split(e.text, <<NL>>)[l] # << >>

\* A well-formed entry whose text has no line of white space only and does
\* not end in white space.
TrimSafeEntry(e) ==
    /\ WellFormedEntry(e)
    /\ \A l \in 1..Len(Split(e.text, <<NL>>)) : Trim(Split(e.text, <<NL>>)[l]) # << >>
    /\ ~IsSpace(e.text[Len(e.text)])

\* C4, as stated: for every sequence of well-formed entries, formatting the
\* parse of the formatted document gives the formatted document again.
C4_RoundTripAsStated ==
    (cpc = "done" /\ \A i \in 1..Len(cin) : WellFormedEntry(cin[i])) => cdoc2 = cdoc

\* C4, amended: the same for well-formed entries whose text has no line of
\* white space only and does not end in white space; parseSRT then returns
\* the very entries that were formatted.
C4_RoundTrip ==
    (cpc = "done" /\ \A i \in 1..Len(cin) : TrimSafeEntry(cin[i])) =>
        /\ cdoc2 = cdoc
        /\ cparsed = cin

\* C4 witness: two such entries, one of two text lines, through the round trip.
C4_Witness ==
    /\ cpc = "done" /\ Len(cin) = 2
    /\ \A i \in 1..2 : TrimSafeEntry(cin[i])
    /\ cin[1].text = <<"a", "b", NL, SP, "c">> /\ cin[2].text = <<SP, "a">>
    /\ cdoc2 = cdoc

\* C5: with a target language outside the supported set the run reads no
\* file, issues no translate call, writes no file, and exits with code 1.
C5_InvalidLanguageAborts ==
    targetLang \notin googleLanguages =>
        /\ readCalls = 0 /\ writeCalls = 0
        /\ calls = << >> /\ task = << >>
        /\ pc \in {"start", "checkLang", "exited"}
        /\ pc = "exited" => exitCode = 1

\* C5 witness: two arguments, the language refused, the process exited.
C5_Witness ==
    /\ pc = "exited" /\ error = "lang" /\ exitCode = 1
    /\ argc >= 2 /\ targetLang = "xx"

\* C6: the output is written at most once and only when every task has
\* finished; when reading or translateSRT throws, nothing is written and the
\* exit code is 1.
C6_WriteAfterJoin ==
    /\ writeCalls <= 1
    /\ writeCalls >= 1 =>
          /\ Len(task) = Len(entries)
          /\ \A i \in 1..Len(entries) : task[i].state = "finished"
    /\ pc = "write" => \A i \in 1..Len(entries) : task[i].state = "finished"
    /\ error \in {"read", "translate"} => writeCalls = 0 /\ exitCode = 1

\* C6 witness: three tasks finished, the output written once, exit code 0.
C6_Witness ==
    /\ writeCalls = 1 /\ exitCode = 0 /\ Len(entries) = 3
    /\ Finished = {1, 2, 3}

\* C7: parseSRT returns exactly the blocks of at least three lines, in
\* source order; a shorter block gets no entry, no translate call and no
\* place in the output.
C7_ShortBlocksSkipped ==
    /\ Parsed => entries = ExpectedEntries(shapes)
    /\ pc \in {"awaitAll"} \/ Joined => Len(calls) = Len(ExpectedEntries(shapes))
    /\ Joined =>
          /\ Len(translatedEntries) = Len(ExpectedEntries(shapes))
          /\ \A i \in 1..Len(translatedEntries) :
                translatedEntries[i].id = ExpectedEntries(shapes)[i].id

\* C7 witness: a document with an index-only block and a block without
\* text between two full blocks, translated and formatted.
C7_Witness ==
    /\ pc = "write" /\ Len(shapes) = 3
    /\ shapes[1] = "full" /\ shapes[2] \in {"idonly", "notext"} /\ shapes[3] = "full"
    /\ Len(entries) = 2 /\ entries[2].id = Num(3)

\* C8: the progress counter equals the number of finished tasks, never
\* exceeds the number of entries, and equals it once Promise.all resolved.
C8_ProgressCounter ==
    /\ progress = Cardinality(Finished)
    /\ progress <= Len(entries)
    /\ Joined => progress = Len(entries)

\* C8 witness: joined with three entries, calls failed and succeeded.
C8_Witness ==
    /\ Joined /\ Len(entries) = 3 /\ progress = 3
    /\ \E i, j \in 1..3 : task[i].out.ok /\ ~task[j].out.ok

\* the fragments of a sentence list, one after the other
RECURSIVE Concat(_)
Concat(ss) == IF ss = << >> THEN << >> ELSE Head(ss).trans \o Concat(Tail(ss))

C10_FanOutAndJoin ==
    /\ [](pc = "awaitAll" \/ Joined => calls = [i \in 1..Len(entries) |-> 1])
    /\ [][pc \notin {"dispatch"} => calls' = calls]_vars
    /\ [](hung # {} => ~Joined /\ writeCalls = 0)
    /\ (pc = "awaitAll" /\ hung = {} /\ env \cap {"stdout", "write"} = {})
          ~> (pc = "exited" /\ exitCode = 0 /\ writeCalls = 1)

\* C10 witness: three calls dispatched, none hung, the output written.
C10_Witness ==
    /\ pc = "exited" /\ exitCode = 0 /\ writeCalls = 1
    /\ Len(calls) = 3 /\ hung = {}

====
